---------------------------- MODULE Spec2Model ----------------------------
(***************************************************************************)
(* KKKF/DynamicalSystems.py: the DynamicalSystem class (dynamics,          *)
(* measurements, sample_initial_state) and create_additive_system.         *)
(*                                                                         *)
(* Numbers are exact rationals <<numerator, denominator>> in lowest terms  *)
(* (np.mean divides); an array is a sequence of rationals, and a NumPy     *)
(* scalar is an array of one element (both broadcast alike under +).       *)
(* A distribution object is a record [name, raises]: `name` is the         *)
(* identity of the object, `raises` tells whether its rvs raises.  What    *)
(* rvs returns is not decided by this module: every call picks its         *)
(* samples freshly from NoiseVals.                                         *)
(***************************************************************************)
EXTENDS Integers, Sequences, FiniteSets, TLC

\* ------------------------------------------------------------- bounds ---
MaxDim == 2
MaxSamples == 3
MaxCount == 2

\* largest raw output of dist_X.rvs the model lets the sampler return
MaxRaw == MaxCount * MaxDim

\* ------------------------------------------------------------- values ---
NoError == "ok"
MapError == "MapError"
SamplerError == "SamplerError"
ShapeError == "ShapeError"
ReshapeError == "ReshapeError"

Abs(n) == IF n < 0 THEN -n ELSE n

RECURSIVE GCD(_, _)
GCD(a, b) == IF b = 0 THEN a ELSE GCD(b, a % b)

\* the rational n/d (d > 0) in lowest terms
Rat(n, d) ==
    LET k == GCD(Abs(n), d) IN <<n \div k, d \div k>>

Num(n) == <<n, 1>>
RPlus(p, q) == Rat(p[1] * q[2] + q[1] * p[2], p[2] * q[2])
RTimes(p, q) == Rat(p[1] * q[1], p[2] * q[2])
RDivInt(p, k) == Rat(p[1], p[2] * k)

\* an array of integers as an array of rationals
Arr(s) == [i \in 1..Len(s) |-> Num(s[i])]

RECURSIVE RSum(_)
RSum(s) == IF s = <<>> THEN Num(0) ELSE RPlus(s[1], RSum(Tail(s)))

RECURSIVE Flatten(_)
Flatten(ss) == IF ss = <<>> THEN <<>> ELSE ss[1] \o Flatten(Tail(ss))

Ok(v) == [err |-> NoError, val |-> v]
Raise(e) == [err |-> e, val |-> <<>>]

\* NumPy's a (op) b on one-dimensional arrays: equal lengths pair up, a
\* length-one operand is broadcast, anything else raises.
Broadcast(a, b, op) ==
    LET R(p, q) == IF op = "+" THEN RPlus(p, q) ELSE RTimes(p, q)
    IN  IF Len(a) = Len(b) THEN Ok([i \in 1..Len(a) |-> R(a[i], b[i])])
        ELSE IF Len(a) = 1 THEN Ok([i \in 1..Len(b) |-> R(a[1], b[i])])
        ELSE IF Len(b) = 1 THEN Ok([i \in 1..Len(a) |-> R(a[i], b[1])])
        ELSE Raise(ShapeError)

Plus(a, b) == Broadcast(a, b, "+")
Times(a, b) == Broadcast(a, b, "*")

\* mutant of Mean: divides by the number of arrays, not of elements
Mean_per_array(vals) ==
    <<RDivInt(RSum(Flatten(vals)), Len(vals))>>

\* np.mean of a list of arrays: one scalar, the mean of all their elements
Mean(vals) ==
    LET flat == Flatten(vals)
    IN  <<RDivInt(RSum(flat), Len(flat))>>

\* ------------------------------------------------ the caller's objects ---
DistNames == {"dist_X", "dist_dyn", "dist_obs"}
Distribution(n, r) == [name |-> n, raises |-> r]

\* scalars a noise distribution may draw
NoiseVals == {1, 2}

\* noise-free maps f(x), g(x) handed to the constructor
DirectMaps == {"inc", "dbl", "boom"}
\* noise-parameterised maps f(x, w), g(x, v) handed to create_additive_system
RawMaps == {"add", "mul", "boom"}

\* state vectors and noise vectors the callers pass
States == {<<5>>, <<0, 5>>}
Noises == {<<0>>, <<1, 2>>, <<1, 2, 3>>}

DirectMap(fn, x) ==
    CASE fn = "inc" -> Plus(x, <<Num(1)>>)
      [] fn = "dbl" -> Times(<<Num(2)>>, x)
      [] OTHER -> Raise(MapError)

RawMap(fn, x, w) ==
    CASE fn = "add" -> Plus(x, w)
      [] fn = "mul" -> Times(x, w)
      [] OTHER -> Raise(MapError)

NoDist == Distribution("none", FALSE)

\* a map held by a System: a caller's noise-free function, or the closure
\* create_additive_system makes, which captures the raw function, the
\* distribution object and N_samples (and no samples)
Direct(fn) == [kind |-> "direct", fn |-> fn, dist |-> NoDist, n |-> 0]
Closure(fn, dist, N_samples) ==
    [kind |-> "closure", fn |-> fn, dist |-> dist, n |-> N_samples]

\* one request dist.rvs(size)
Request(dist, size) == [dist |-> dist.name, size |-> size]

\* what a call m(x) may get back from its sampler: N_samples scalars
Draws(m) ==
    IF m.kind = "closure" /\ ~m.dist.raises
    THEN [1..m.n -> NoiseVals] ELSE {<<>>}

\* m(x), where ws are the samples rvs returns during this call.  The
\* closure asks its distribution for N_samples samples on every call,
\* evaluates the raw map on each and returns np.mean of the results.
EvalMap(m, x, ws) ==
    IF m.kind = "direct"
    THEN [out |-> DirectMap(m.fn, x), rvs |-> <<>>]
    ELSE IF m.dist.raises
    THEN [out |-> Raise(SamplerError), rvs |-> <<Request(m.dist, m.n)>>]
    ELSE LET res == [i \in 1..m.n |-> RawMap(m.fn, x, <<Num(ws[i])>>)]
             bad == {i \in 1..m.n : res[i].err # NoError}
         IN  [out |-> IF bad # {}
                      THEN Raise(res[CHOOSE i \in bad : \A j \in bad : i <= j].err)
                      ELSE Ok(Mean([i \in 1..m.n |-> res[i].val])),
              rvs |-> <<Request(m.dist, m.n)>>]

\* ----------------------------------------------------- DynamicalSystem ---
DynamicalSystem(nx, ny, f, g, dist_X, dist_dyn, dist_obs) ==
    [nx |-> nx, ny |-> ny, f |-> f, g |-> g,
     dist_X |-> dist_X, dist_dyn |-> dist_dyn, dist_obs |-> dist_obs]

\* the outcome of a method call: the object after the call, the value the
\* map returned (fx), the value returned to the caller (ret), the error
\* raised instead (err), and the sampler requests made on the way (rvs)
Outcome(self, fx, ret, err, rvs) ==
    [self |-> self, fx |-> fx, ret |-> ret, err |-> err, rvs |-> rvs]

\* mutant of dynamics: evaluates the observation map
dynamics_uses_g(self, x, w, ws) ==
    LET m == EvalMap(self.g, Arr(x), ws)
        r == Plus(m.out.val, Arr(w))
    IN  IF m.out.err # NoError
        THEN Outcome(self, <<>>, <<>>, m.out.err, m.rvs)
        ELSE Outcome(self, m.out.val, r.val, r.err, m.rvs)

\* self.f(x) + w
dynamics(self, x, w, ws) ==
    LET m == EvalMap(self.f, Arr(x), ws)
        r == Plus(m.out.val, Arr(w))
    IN  IF m.out.err # NoError
        THEN Outcome(self, <<>>, <<>>, m.out.err, m.rvs)
        ELSE Outcome(self, m.out.val, r.val, r.err, m.rvs)

\* self.g(x) + v
measurements(self, x, v, ws) ==
    LET m == EvalMap(self.g, Arr(x), ws)
        r == Plus(m.out.val, Arr(v))
    IN  IF m.out.err # NoError
        THEN Outcome(self, <<>>, <<>>, m.out.err, m.rvs)
        ELSE Outcome(self, m.out.val, r.val, r.err, m.rvs)

\* mutant of Reshape: repeats or drops elements to fill the shape (np.resize)
Reshape_resize(raw, rows, cols) ==
    Ok([r \in 1..rows |-> [c \in 1..cols |->
           IF raw = <<>> THEN 0 ELSE raw[(((r - 1) * cols + c - 1) % Len(raw)) + 1]]])

\* ndarray.reshape((rows, cols)) of a flat array, row-major
Reshape(raw, rows, cols) ==
    IF Len(raw) = rows * cols
    THEN Ok([r \in 1..rows |-> [c \in 1..cols |-> raw[(r - 1) * cols + c]]])
    ELSE Raise(ReshapeError)

\* mutant of sample_initial_state: keeps the requested size in self.nx
sample_initial_state_sets_nx(self, size, raw) ==
    LET req == <<Request(self.dist_X, size)>>
        r == Reshape(raw, size, self.nx)
    IN  IF self.dist_X.raises
        THEN Outcome(self, <<>>, <<>>, SamplerError, req)
        ELSE Outcome([self EXCEPT !.nx = size], <<>>, r.val, r.err, req)

\* self.dist_X.rvs(size=size).reshape((size, self.nx)); raw is what rvs
\* returns, flattened
sample_initial_state(self, size, raw) ==
    LET req == <<Request(self.dist_X, size)>>
        r == Reshape(raw, size, self.nx)
    IN  IF self.dist_X.raises
        THEN Outcome(self, <<>>, <<>>, SamplerError, req)
        ELSE Outcome(self, <<>>, r.val, r.err, req)

\* mutant of create_additive_system: the two noise distributions swapped
create_additive_system_swapped(nx, ny, f, g, dist_X, dist_dyn, dist_obs, N_samples) ==
    LET new_f == Closure(f, dist_obs, N_samples)
        new_g == Closure(g, dist_dyn, N_samples)
    IN  Outcome(DynamicalSystem(nx, ny, new_f, new_g, dist_X, dist_obs, dist_dyn),
                <<>>, <<>>, NoError, <<>>)

\* create_additive_system: two closures and the constructor; it calls
\* neither a raw map nor a sampler
create_additive_system(nx, ny, f, g, dist_X, dist_dyn, dist_obs, N_samples) ==
    LET new_f == Closure(f, dist_dyn, N_samples)
        new_g == Closure(g, dist_obs, N_samples)
    IN  Outcome(DynamicalSystem(nx, ny, new_f, new_g, dist_X, dist_dyn, dist_obs),
                <<>>, <<>>, NoError, <<>>)

\* ---------------------------------------------------------------- state ---
VARIABLES
    sys,    \* the DynamicalSystem object (its seven fields)
    made,   \* how sys was made, with what arguments, and what making it did
    call    \* per calling thread: the method call in progress or last completed

vars == <<sys, made, call>>

Threads == {"t1", "t2"}
Methods == {"dynamics", "measurements"}

NoSys == DynamicalSystem(0, 0, Direct("none"), Direct("none"), NoDist, NoDist, NoDist)
NoArgs == [nx |-> 0, ny |-> 0, f |-> "none", g |-> "none", dist_X |-> NoDist,
           dist_dyn |-> NoDist, dist_obs |-> NoDist, N_samples |-> 0]
Idle ==
    [pc |-> "idle", op |-> "none", x |-> <<>>, w |-> <<>>, size |-> 0, raw |-> <<>>,
     samples |-> <<>>, fx |-> <<>>, ret |-> <<>>, err |-> NoError, rvs |-> <<>>]

\* the arguments a specification's callers choose from
Universe(threads, dims, broken, direct, raw, samples, counts, raws) ==
    [threads |-> threads, dims |-> dims, broken |-> broken, direct |-> direct,
     raw |-> raw, samples |-> samples, counts |-> counts, raws |-> raws]

Init ==
    /\ sys = NoSys
    /\ made = [how |-> "none", args |-> NoArgs, err |-> NoError, rvs |-> <<>>]
    /\ call = [t \in Threads |-> Idle]

\* DynamicalSystem(nx, ny, f, g, dist_X, dist_dyn, dist_obs)
Construct(U) ==
    /\ made.how = "none"
    /\ \E nx \in U.dims, ny \in U.dims, f \in U.direct, g \in U.direct,
          broken \in U.broken :
          LET dX == Distribution("dist_X", "dist_X" \in broken)
              dW == Distribution("dist_dyn", "dist_dyn" \in broken)
              dV == Distribution("dist_obs", "dist_obs" \in broken)
          IN  /\ sys' = DynamicalSystem(nx, ny, Direct(f), Direct(g), dX, dW, dV)
              /\ made' = [how |-> "direct", err |-> NoError, rvs |-> <<>>,
                          args |-> [nx |-> nx, ny |-> ny, f |-> f, g |-> g,
                                    dist_X |-> dX, dist_dyn |-> dW, dist_obs |-> dV,
                                    N_samples |-> 0]]
    /\ UNCHANGED call

\* create_additive_system(nx, ny, f, g, dist_X, dist_dyn, dist_obs, N_samples)
Build(U) ==
    /\ made.how = "none"
    /\ \E nx \in U.dims, ny \in U.dims, f \in U.raw, g \in U.raw, N \in U.samples,
          broken \in U.broken :
          LET dX == Distribution("dist_X", "dist_X" \in broken)
              dW == Distribution("dist_dyn", "dist_dyn" \in broken)
              dV == Distribution("dist_obs", "dist_obs" \in broken)
              o == create_additive_system(nx, ny, f, g, dX, dW, dV, N)
          IN  /\ sys' = o.self
              /\ made' = [how |-> "build", err |-> o.err, rvs |-> o.rvs,
                          args |-> [nx |-> nx, ny |-> ny, f |-> f, g |-> g,
                                    dist_X |-> dX, dist_dyn |-> dW, dist_obs |-> dV,
                                    N_samples |-> N]]
    /\ UNCHANGED call

\* the map a method evaluates
MapOf(self, op) == IF op = "dynamics" THEN self.f ELSE self.g

Invoke(self, op, x, w, ws) ==
    IF op = "dynamics" THEN dynamics(self, x, w, ws) ELSE measurements(self, x, w, ws)

\* thread t enters dynamics(x, w) or measurements(x, w) and evaluates the
\* map: the closure's sampler is asked here, and returns ws
Begin(U, t) ==
    /\ made.how # "none" /\ made.err = NoError
    /\ call[t].pc = "idle"
    /\ \E op \in Methods, x \in States, w \in Noises :
          \E ws \in Draws(MapOf(sys, op)) :
             LET o == Invoke(sys, op, x, w, ws)
             IN  /\ sys' = o.self
                 /\ call' = [call EXCEPT ![t] =
                       [Idle EXCEPT !.pc = "mid", !.op = op, !.x = x, !.w = w,
                                    !.samples = ws, !.fx = o.fx, !.rvs = o.rvs]]
    /\ UNCHANGED made

\* thread t adds the noise and returns, or the error raised on the way
\* reaches the caller
Finish(U, t) ==
    /\ call[t].pc = "mid"
    /\ LET c == call[t]
           o == Invoke(sys, c.op, c.x, c.w, c.samples)
       IN  /\ sys' = o.self
           /\ call' = [call EXCEPT ![t] = [c EXCEPT !.pc = "done", !.ret = o.ret,
                                                    !.err = o.err]]
    /\ UNCHANGED made

\* what dist_X.rvs(size=size) may return, flattened: the scalars are named
\* by their place in the output
RawOutputs(dist, raws) ==
    IF dist.raises THEN {<<>>} ELSE {[i \in 1..L |-> i] : L \in raws}

\* thread t calls sample_initial_state(size)
Sample(U, t) ==
    /\ made.how # "none" /\ made.err = NoError
    /\ call[t].pc = "idle"
    /\ \E size \in U.counts, raw \in RawOutputs(sys.dist_X, U.raws) :
          LET o == sample_initial_state(sys, size, raw)
          IN  /\ sys' = o.self
              /\ call' = [call EXCEPT ![t] =
                    [Idle EXCEPT !.pc = "done", !.op = "sample_initial_state",
                                 !.size = size, !.raw = raw, !.ret = o.ret,
                                 !.err = o.err, !.rvs = o.rvs]]
    /\ UNCHANGED made

\* thread t's caller has taken the result (or the error) and is ready to
\* call again
Return(U, t) ==
    /\ call[t].pc = "done"
    /\ call' = [call EXCEPT ![t] = Idle]
    /\ UNCHANGED <<sys, made>>

Step(U) ==
    \/ Construct(U)
    \/ Build(U)
    \/ \E t \in U.threads : Begin(U, t)
    \/ \E t \in U.threads : Finish(U, t)
    \/ \E t \in U.threads : Sample(U, t)
    \/ \E t \in U.threads : Return(U, t)

\* which of the three distribution objects have an rvs that raises: none,
\* or one of them
BrokenSets == {{}} \cup {{n} : n \in DistNames}

\* one caller, the whole range of arguments
SeqU == Universe({"t1"}, 1..MaxDim, BrokenSets, DirectMaps, RawMaps,
                 1..MaxSamples, 0..MaxCount, 0..MaxRaw)
Next == Step(SeqU)
Spec == Init /\ [][Next]_vars

\* two callers sharing one System
ConcU == Universe(Threads, {1}, {{}}, {"inc"}, {"add"}, 1..MaxSamples, {1}, {1})
NextConc == Step(ConcU)
SpecConc == Init /\ [][NextConc]_vars

\* --------------------------------------------------------------- claims ---
Built == made.how = "build"
Active(t) == call[t].pc \in {"mid", "done"}
Done(t) == call[t].pc = "done"
Returned(t) == Done(t) /\ call[t].err = NoError

RECURSIVE SumInt(_)
SumInt(s) == IF s = <<>> THEN 0 ELSE s[1] + SumInt(Tail(s))

Max(a, b) == IF a >= b THEN a ELSE b
At(a, i) == IF Len(a) = 1 THEN a[1] ELSE a[i]

\* the raw maps "add" and "mul" on scalars
RawValue(fn, xj, wi) == IF fn = "add" THEN xj + wi ELSE xj * wi

\* the mean of fn(x, w) over the samples ws, taken over every element of
\* every result, as one rational
MeanOver(fn, x, ws) ==
    Rat(SumInt([k \in 1..(Len(ws) * Len(x)) |->
                  RawValue(fn, x[((k - 1) % Len(x)) + 1], ws[((k - 1) \div Len(x)) + 1])]),
        Len(ws) * Len(x))

\* the value of the map the caller handed over, at x (ws: the samples of
\* this call)
GivenMap(fn, x, ws) ==
    CASE made.how = "direct" /\ fn = "inc" -> [i \in 1..Len(x) |-> Num(x[i] + 1)]
      [] made.how = "direct" /\ fn = "dbl" -> [i \in 1..Len(x) |-> Num(2 * x[i])]
      [] OTHER -> <<MeanOver(fn, x, ws)>>

C5_SampleShape ==
    \A t \in Threads :
        (Done(t) /\ call[t].op = "sample_initial_state" /\ ~made.args.dist_X.raises) =>
            LET c == call[t]
                nx == made.args.nx
            IN  IF Len(c.raw) = c.size * nx
                THEN /\ c.err = NoError
                     /\ Len(c.ret) = c.size
                     /\ \A r \in 1..Len(c.ret) : Len(c.ret[r]) = nx
                     /\ Flatten(c.ret) = c.raw
                ELSE c.err = ReshapeError /\ c.ret = <<>>

C5_Witness ==
    /\ made.args.nx = 2
    /\ Returned("t1") /\ call["t1"].op = "sample_initial_state"
    /\ call["t1"].size = 2 /\ call["t1"].ret = <<<<1, 2>>, <<3, 4>>>>

\* C6: once the System is made, no call, successful or failing, changes
\* any of its seven fields.
C6_FieldsFrozen == [][made.how # "none" => sys' = sys]_vars

C6_Witness ==
    /\ made.how # "none" /\ sys.nx = made.args.nx
    /\ Done("t1") /\ call["t1"].err = ReshapeError

C10_OwnDistribution ==
    /\ \A t \in Threads :
          LET c == call[t]
          IN  /\ (Done(t) /\ c.op = "sample_initial_state") =>
                    c.rvs = <<[dist |-> "dist_X", size |-> c.size]>>
              /\ (Built /\ Active(t) /\ c.op = "dynamics") =>
                    \A i \in 1..Len(c.rvs) : c.rvs[i].dist = "dist_dyn"
              /\ (Built /\ Active(t) /\ c.op = "measurements") =>
                    \A i \in 1..Len(c.rvs) : c.rvs[i].dist = "dist_obs"
    /\ Built =>
          /\ sys.nx = made.args.nx /\ sys.ny = made.args.ny
          /\ sys.dist_X = made.args.dist_X /\ sys.dist_X.name = "dist_X"
          /\ sys.dist_dyn = made.args.dist_dyn /\ sys.dist_dyn.name = "dist_dyn"
          /\ sys.dist_obs = made.args.dist_obs /\ sys.dist_obs.name = "dist_obs"

C10_Witness ==
    /\ Built /\ made.args.nx = 1 /\ made.args.ny = 2
    /\ Returned("t1") /\ call["t1"].op = "measurements"
    /\ call["t1"].rvs = <<[dist |-> "dist_obs", size |-> made.args.N_samples]>>

\* C1: on a built System two calls of the derived transition map with the
\* same state return the same value, and so do two calls of the derived
\* observation map: dynamics(x, 0) is the same on every call.
C1_DerivedMapDeterministic ==
    \A t1 \in Threads, t2 \in Threads :
        (/\ Built /\ Returned(t1) /\ Returned(t2)
         /\ call[t1].op \in Methods /\ call[t1].op = call[t2].op
         /\ call[t1].x = call[t2].x
         /\ call[t1].w = <<0>> /\ call[t2].w = <<0>>) =>
            call[t1].fx = call[t2].fx /\ call[t1].ret = call[t2].ret

\* C2: create_additive_system draws N_samples samples from dist_dyn and
\* from dist_obs while it builds, and no later dynamics or measurements
\* call on the built System asks any distribution for samples.
C2_DrawsAtBuildOnly ==
    Built =>
        /\ made.rvs = <<[dist |-> "dist_dyn", size |-> made.args.N_samples],
                        [dist |-> "dist_obs", size |-> made.args.N_samples]>>
        /\ \A t \in Threads :
              (Active(t) /\ call[t].op \in Methods) => call[t].rvs = <<>>

\* C4: for every System, directly constructed or built,
\* dynamics(x, w1) - dynamics(x, w2) = w1 - w2.
C4_NoiseDifference ==
    \A t1 \in Threads, t2 \in Threads :
        (/\ Returned(t1) /\ Returned(t2)
         /\ call[t1].op = "dynamics" /\ call[t2].op = "dynamics"
         /\ call[t1].x = call[t2].x
         /\ Len(call[t1].w) = Len(call[t2].w)) =>
            LET r1 == call[t1].ret
                r2 == call[t2].ret
            IN  /\ Len(r1) = Len(r2)
                /\ \A i \in 1..Len(r1) :
                      RPlus(r1[i], RTimes(Num(-1), r2[i]))
                         = Num(At(call[t1].w, i) - At(call[t2].w, i))

\* C8: calls issued by two threads on one System, however interleaved,
\* each return what they would return run one after another in any order:
\* the outcome of a call depends on the System and the arguments alone.
C8_InterleavingInvisible ==
    \A t1 \in Threads, t2 \in Threads :
        (/\ Done(t1) /\ Done(t2)
         /\ call[t1].op \in Methods /\ call[t1].op = call[t2].op
         /\ call[t1].x = call[t2].x /\ call[t1].w = call[t2].w) =>
            call[t1].err = call[t2].err /\ call[t1].ret = call[t2].ret

=============================================================================
